---- MODULE Spec2Model ----
(***************************************************************************)
(* Model of heic_to_jpg_converter.py: the HEICConverterApp window, its     *)
(* three button handlers (run by the Tk main loop on the control thread)   *)
(* and the convert_process worker started by threading.Thread.             *)
(*                                                                         *)
(* Paths are sequences of one-character strings so that os.path.split,     *)
(* os.path.splitext, os.path.join, str.lower and str.endswith are computed *)
(* the way the library computes them.                                      *)
(***************************************************************************)
EXTENDS Integers, Sequences, FiniteSets, TLC

\* ------------------------------------------------------------------ bounds
MaxPick == 2        \* longest tuple the file picker returns in one call
MaxThreads == 2     \* number of conversion threads started in one run
MaxArgs == 3        \* longest argument of a direct add_files_to_list call
MaxName == 6        \* longest path of the output-naming runs
MaxTree == 2        \* most files in a directory tree of the folder-scan runs

\* ------------------------------------------------------- string functions
Range(s) == {s[i] : i \in 1..Len(s)}

\* str.rfind: the last index holding c, 0 when there is none
RFind(s, c) ==
    LET hits == {i \in 1..Len(s) : s[i] = c}
    IN  IF hits = {} THEN 0 ELSE CHOOSE i \in hits : \A j \in hits : j <= i

\* str.rstrip(c)
RStrip(s, c) ==
    LET keep == {i \in 1..Len(s) : s[i] # c}
    IN  IF keep = {} THEN <<>>
        ELSE SubSeq(s, 1, CHOOSE i \in keep : \A j \in keep : j <= i)

\* str.lower on the letters that occur in the modelled file names
LowerChar(c) ==
    CASE c = "H" -> "h"
      [] c = "E" -> "e"
      [] c = "I" -> "i"
      [] c = "C" -> "c"
      [] c = "F" -> "f"
      [] c = "J" -> "j"
      [] OTHER -> c

lower(s) == [i \in 1..Len(s) |-> LowerChar(s[i])]

\* str.endswith with one suffix
EndsWith(s, suf) ==
    /\ Len(suf) <= Len(s)
    /\ SubSeq(s, Len(s) - Len(suf) + 1, Len(s)) = suf

\* posixpath.split: cut at the last "/", strip trailing slashes of the head
\* unless the head is nothing but slashes
split(p) ==
    LET i    == RFind(p, "/")
        head == SubSeq(p, 1, i)
        tail == SubSeq(p, i + 1, Len(p))
    IN  <<IF head # <<>> /\ RStrip(head, "/") # <<>> THEN RStrip(head, "/") ELSE head,
          tail>>

\* posixpath.splitext (genericpath._splitext): the extension starts at the
\* last dot, provided some character before it in the last component is not
\* a dot
splitext(p) ==
    LET sepIndex == RFind(p, "/")
        dotIndex == RFind(p, ".")
    IN  IF /\ dotIndex > sepIndex
           /\ \E k \in (sepIndex + 1)..(dotIndex - 1) : p[k] # "."
        THEN <<SubSeq(p, 1, dotIndex - 1), SubSeq(p, dotIndex, Len(p))>>
        ELSE <<p, <<>>>>

\* posixpath.join of two components
join(a, b) ==
    IF b # <<>> /\ b[1] = "/" THEN b
    ELSE IF a = <<>> \/ a[Len(a)] = "/" THEN a \o b
    ELSE a \o <<"/">> \o b

basename(p) == SubSeq(p, RFind(p, "/") + 1, Len(p))

ExtHeic == <<".", "h", "e", "i", "c">>
ExtHeif == <<".", "h", "e", "i", "f">>
ExtJpg  == <<".", "j", "p", "g">>

\* line 64 without .lower()
IsHeic_CaseSensitive(filename) ==
    \/ EndsWith(filename, ExtHeic)
    \/ EndsWith(filename, ExtHeif)

\* line 64: filename.lower().endswith(('.heic', '.heif'))
IsHeic(filename) ==
    \/ EndsWith(lower(filename), ExtHeic)
    \/ EndsWith(lower(filename), ExtHeif)

\* lines 109-112 with the name cut at its first dot instead of its last
SavePath_FirstDot(file_path) ==
    LET directory    == split(file_path)[1]
        filename     == split(file_path)[2]
        dots         == {i \in 1..Len(filename) : filename[i] = "."}
        name         == IF dots = {} THEN filename
                        ELSE SubSeq(filename, 1,
                                    (CHOOSE i \in dots : \A j \in dots : i <= j) - 1)
        new_filename == name \o ExtJpg
    IN  join(directory, new_filename)

\* lines 109-112: the path handed to sips after --out
SavePath(file_path) ==
    LET directory    == split(file_path)[1]
        filename     == split(file_path)[2]
        name         == splitext(filename)[1]
        new_filename == name \o ExtJpg
    IN  join(directory, new_filename)


\* ------------------------------------------------------------- file system
\* The files the pickers can return: /a/x.heic, /a/b/y.HEIF and /a/z.jpg
File1 == <<"/", "a", "/", "x", ".", "h", "e", "i", "c">>
File2 == <<"/", "a", "/", "b", "/", "y", ".", "H", "E", "I", "F">>
File3 == <<"/", "a", "/", "z", ".", "j", "p", "g">>
Files == {File1, File2, File3}

\* The directories askdirectory can return: /a, /a/b and the empty /a/c
DirA == <<"/", "a">>
DirB == <<"/", "a", "/", "b">>
DirC == <<"/", "a", "/", "c">>
Folders == {DirA, DirB, DirC}

NoPath == <<>>

\* The paths of the output-naming runs: what a file dialog hands back for any
\* file whatever its name, an absolute normalised path (no trailing slash, no
\* empty directory component and none made of dots only, a file name other
\* than "." and "..") over the characters "/", "." and "a"
NameChars == {"/", ".", "a"}
IsPickable(p) ==
    /\ Len(p) >= 2
    /\ p[1] = "/"
    /\ p[Len(p)] # "/"
    /\ \A i \in 1..(Len(p) - 1) : ~(p[i] = "/" /\ p[i + 1] = "/")
    /\ \A i \in 1..Len(p) : \A j \in i..Len(p) :
          (p[i] = "/" /\ p[j] = "/" /\ j > i + 1)
              => \E k \in (i + 1)..(j - 1) : p[k] # "."
    /\ \E k \in (RFind(p, "/") + 1)..Len(p) : p[k] # "." \/ Len(p) - RFind(p, "/") > 2

\* sequences over S without repetition, of length at most n
DistinctSeqs(S, n) ==
    UNION {{s \in [1..k -> S] : \A i, j \in 1..k : i # j => s[i] # s[j]} : k \in 0..n}

\* sequences over S, of length at most n
AllSeqs(S, n) == UNION {[1..k -> S] : k \in 0..n}

\* filedialog.askopenfilenames: the tuple of files the user marked, the empty
\* tuple when the dialog is cancelled; the "All files" filter offers every file
askopenfilenames == DistinctSeqs(Files, MaxPick)

\* filedialog.askdirectory: a directory, or the empty string when cancelled
askdirectory == Folders \cup {NoPath}

PickablePaths == {p \in AllSeqs(NameChars, MaxName) : IsPickable(p)}

\* os.walk(folder) joined with the file names, lines 62-65 without the filter:
\* every file below folder once, a directory's files before its
\* subdirectories' files
IsBelow(folder, f) ==
    /\ Len(f) > Len(folder) + 1
    /\ SubSeq(f, 1, Len(folder) + 1) = folder \o <<"/">>

IsProperPrefix(a, b) == Len(a) < Len(b) /\ SubSeq(b, 1, Len(a)) = a

walk_tree(folder, tree) ==
    LET below == {f \in tree : IsBelow(folder, f)}
    IN  {s \in DistinctSeqs(below, Cardinality(below)) :
            /\ Len(s) = Cardinality(below)
            /\ \A i, j \in 1..Len(s) :
                  i < j => ~IsProperPrefix(split(s[j])[1], split(s[i])[1])}

walk(folder) == walk_tree(folder, Files)

\* lines 61-65: the scan result for one enumeration order of the tree
IsHeicPath(f) == IsHeic(split(f)[2])

scan(order) == SelectSeq(order, IsHeicPath)

\* ------------------------------------------------------------------- state
VARIABLES
    selected_files,     \* self.selected_files
    listbox_files,      \* the entries of self.listbox_files
    status_var,         \* self.status_var
    progress_var,       \* self.progress_var as <<k, n>> for (k / n) * 100
    btn_convert,        \* state of self.btn_convert
    btn_select_files,   \* state of self.btn_select_files
    btn_select_folder,  \* state of self.btn_select_folder
    messagebox,         \* the completion box of line 136 while it is open
    notice,             \* the box the latest handler of the control thread showed
    threads,            \* the convert_process threads started so far
    ui_writer,          \* thread that made the latest write to the state above
    passed              \* paths handed to add_files_to_list since the last clear

vars == <<selected_files, listbox_files, status_var, progress_var, btn_convert,
          btn_select_files, btn_select_folder, messagebox, notice, threads,
          ui_writer, passed>>

ui == <<selected_files, listbox_files, status_var, progress_var, btn_convert,
        btn_select_files, btn_select_folder, messagebox, notice>>

MainThread == 0
ThreadIds == 1..MaxThreads
Outcomes == {"zero", "nonzero", "raise"}

Status(kind, a, b, name) == [kind |-> kind, a |-> a, b |-> b, name |-> name]
NoBox == [open |-> FALSE, s |-> 0, e |-> 0]

\* the locals of a thread that is not inside convert_process; exits counts
\* the outcomes of subprocess.run and log lists its source and --out paths
NoThread ==
    [pc |-> "unborn", total |-> 0, it |-> 0, success_count |-> 0,
     error_count |-> 0, file_path |-> NoPath, log |-> <<>>,
     exits |-> [zero |-> 0, nonzero |-> 0, raise |-> 0]]

\* __init__, lines 34-50
Init ==
    /\ selected_files = <<>>
    /\ listbox_files = <<>>
    /\ status_var = Status("ready", 0, 0, NoPath)
    /\ progress_var = <<0, 1>>
    /\ btn_convert = "normal"
    /\ btn_select_files = "normal"
    /\ btn_select_folder = "normal"
    /\ messagebox = NoBox
    /\ notice = "none"
    /\ threads = [t \in ThreadIds |-> NoThread]
    /\ ui_writer = MainThread
    /\ passed = <<>>

Alive(t) == threads[t].pc \notin {"unborn", "done"}
Started == {t \in ThreadIds : threads[t].pc # "unborn"}

\* the first occurrence of every element of s, in order
RECURSIVE FirstSeen(_)
FirstSeen(s) ==
    IF s = <<>> THEN <<>>
    ELSE LET init == FirstSeen(SubSeq(s, 1, Len(s) - 1))
             last == s[Len(s)]
         IN  IF last \in Range(init) THEN init ELSE Append(init, last)

\* --------------------------------------------------- control-thread handlers
\* lines 75-76: the entries of files that are not in selected_files
new_files(files) ==
    LET current_files == Range(selected_files)
    IN  SelectSeq(files, LAMBDA f : f \notin current_files)

\* add_files_to_list, lines 73-85
add_files_to_list(files) ==
    /\ passed' = FirstSeen(passed \o files)
    /\ IF new_files(files) = <<>>
       THEN UNCHANGED <<selected_files, listbox_files, status_var, ui_writer>>
       ELSE /\ selected_files' = selected_files \o new_files(files)
            /\ listbox_files' = listbox_files \o new_files(files)
            /\ status_var' = Status("waiting", Len(selected_files'), 0, NoPath)
            /\ ui_writer' = MainThread

\* select_files, lines 52-56, run when the enabled button is clicked
select_files(files) ==
    /\ btn_select_files = "normal"
    /\ ~messagebox.open
    /\ notice' = "none"
    /\ IF files # <<>>
       THEN add_files_to_list(files)
       ELSE UNCHANGED <<selected_files, listbox_files, status_var, ui_writer, passed>>
    /\ UNCHANGED <<progress_var, btn_convert, btn_select_files, btn_select_folder,
                   messagebox, threads>>

\* select_folder without the test of lines 67-69
select_folder_NoEmptyTest(folder, order) ==
    /\ btn_select_folder = "normal"
    /\ ~messagebox.open
    /\ notice' = "none"
    /\ IF folder = NoPath
       THEN UNCHANGED <<selected_files, listbox_files, status_var, ui_writer, passed>>
       ELSE add_files_to_list(scan(order))
    /\ UNCHANGED <<progress_var, btn_convert, btn_select_files, btn_select_folder,
                   messagebox, threads>>

\* select_folder, lines 58-71, run when the enabled button is clicked
select_folder(folder, order) ==
    /\ btn_select_folder = "normal"
    /\ ~messagebox.open
    /\ IF folder = NoPath
       THEN /\ notice' = "none"
            /\ UNCHANGED <<selected_files, listbox_files, status_var, ui_writer, passed>>
       ELSE IF scan(order) = <<>>
       THEN /\ notice' = "showinfo_no_heic"
            /\ UNCHANGED <<selected_files, listbox_files, status_var, ui_writer, passed>>
       ELSE /\ notice' = "none"
            /\ add_files_to_list(scan(order))
    /\ UNCHANGED <<progress_var, btn_convert, btn_select_files, btn_select_folder,
                   messagebox, threads>>

\* line 97: threading.Thread(target=self.convert_process).start()
StartThread ==
    LET t == CHOOSE u \in ThreadIds \ Started : \A v \in ThreadIds \ Started : u <= v
    IN  threads' = [threads EXCEPT ![t].pc = "l100"]

\* start_conversion without the test of lines 88-90
start_conversion_NoGuard ==
    /\ btn_convert = "normal"
    /\ ~messagebox.open
    /\ Started # ThreadIds
    /\ notice' = "none"
    /\ btn_convert' = "disabled"
    /\ btn_select_files' = "disabled"
    /\ btn_select_folder' = "disabled"
    /\ ui_writer' = MainThread
    /\ StartThread
    /\ UNCHANGED <<selected_files, listbox_files, status_var, progress_var,
                   messagebox, passed>>

\* start_conversion, lines 87-97, run when the enabled button is clicked
start_conversion ==
    /\ btn_convert = "normal"
    /\ ~messagebox.open
    /\ IF selected_files = <<>>
       THEN /\ notice' = "showwarning_no_selection"
            /\ UNCHANGED <<btn_convert, btn_select_files, btn_select_folder, threads,
                           ui_writer>>
       ELSE /\ Started # ThreadIds
            /\ notice' = "none"
            /\ btn_convert' = "disabled"
            /\ btn_select_files' = "disabled"
            /\ btn_select_folder' = "disabled"
            /\ ui_writer' = MainThread
            /\ StartThread
    /\ UNCHANGED <<selected_files, listbox_files, status_var, progress_var,
                   messagebox, passed>>

\* ------------------------------------------------- convert_process (worker)
\* Each action is one step of the thread t started at line 97; the steps of
\* the threads and the handlers of the control thread interleave freely.

Step(t, from, to) ==
    /\ threads[t].pc = from
    /\ threads' = [threads EXCEPT ![t].pc = to]

\* lines 100-102
l100(t) ==
    /\ threads[t].pc = "l100"
    /\ threads' = [threads EXCEPT ![t].pc = "l104",
                                  ![t].total = Len(selected_files),
                                  ![t].success_count = 0,
                                  ![t].error_count = 0]
    /\ UNCHANGED <<ui, ui_writer, passed>>

\* the loop with a break after the first failed file
l104_FailFast(t) ==
    /\ threads[t].pc = "l104"
    /\ IF threads[t].it < Len(selected_files) /\ threads[t].error_count = 0
       THEN /\ threads' = [threads EXCEPT
                             ![t].pc = "l119",
                             ![t].it = @ + 1,
                             ![t].file_path = selected_files[threads[t].it + 1]]
            /\ status_var' = Status("converting", threads[t].it + 1, threads[t].total,
                                    basename(selected_files[threads[t].it + 1]))
            /\ ui_writer' = t
       ELSE /\ threads' = [threads EXCEPT ![t].pc = "l135"]
            /\ UNCHANGED <<status_var, ui_writer>>
    /\ UNCHANGED <<selected_files, listbox_files, progress_var, btn_convert,
                   btn_select_files, btn_select_folder, messagebox, notice, passed>>

\* lines 104-106: the list iterator yields the next entry of selected_files,
\* or ends the loop; the status shows idx+1, total and the base name
\* lines 104-106 with the status text emitted once the item has been run,
\* under the number of the items run so far
l104_StatusOfRun(t) ==
    /\ threads[t].pc = "l104"
    /\ IF threads[t].it < Len(selected_files)
       THEN /\ threads' = [threads EXCEPT ![t].pc = "l119", ![t].it = @ + 1,
                             ![t].file_path = selected_files[threads[t].it + 1]]
            /\ IF threads[t].it > 0
               THEN /\ status_var' = Status("converting", threads[t].it, threads[t].total,
                                            basename(selected_files[threads[t].it]))
                    /\ ui_writer' = t
               ELSE UNCHANGED <<status_var, ui_writer>>
       ELSE /\ threads' = [threads EXCEPT ![t].pc = "l135"]
            /\ UNCHANGED <<status_var, ui_writer>>
    /\ UNCHANGED <<selected_files, listbox_files, progress_var, btn_convert,
                   btn_select_files, btn_select_folder, messagebox, notice, passed>>

l104(t) ==
    /\ threads[t].pc = "l104"
    /\ IF threads[t].it < Len(selected_files)
       THEN /\ threads' = [threads EXCEPT
                             ![t].pc = "l119",
                             ![t].it = @ + 1,
                             ![t].file_path = selected_files[threads[t].it + 1]]
            /\ status_var' = Status("converting", threads[t].it + 1, threads[t].total,
                                    basename(selected_files[threads[t].it + 1]))
            /\ ui_writer' = t
       ELSE /\ threads' = [threads EXCEPT ![t].pc = "l135"]
            /\ UNCHANGED <<status_var, ui_writer>>
    /\ UNCHANGED <<selected_files, listbox_files, progress_var, btn_convert,
                   btn_select_files, btn_select_folder, messagebox, notice, passed>>

\* the classification without line 128: a raise is not counted
Classify_RaiseNotCounted(th, rc) ==
    IF rc = "zero" THEN [th EXCEPT !.success_count = @ + 1]
    ELSE IF rc = "nonzero" THEN [th EXCEPT !.error_count = @ + 1]
    ELSE th

\* the classification without the except clause of line 126: a raise leaves
\* convert_process and ends the thread
Classify_Uncaught(th, rc) ==
    IF rc = "zero" THEN [th EXCEPT !.success_count = @ + 1]
    ELSE IF rc = "nonzero" THEN [th EXCEPT !.error_count = @ + 1]
    ELSE [th EXCEPT !.pc = "done"]

\* lines 121-128: the counters after subprocess.run ended with rc
Classify(th, rc) ==
    IF rc = "zero"
    THEN [th EXCEPT !.success_count = @ + 1]
    ELSE [th EXCEPT !.error_count = @ + 1]

\* SavePath, tabulated for the files of the file system
save_path == [f \in Files |-> SavePath(f)]

\* lines 109-119: sips has been run on file_path with --out save_path
Ran(th, rc) ==
    [th EXCEPT !.pc = "l131",
               !.log = Append(@, [src |-> th.file_path,
                                  out |-> IF th.file_path \in Files
                                          THEN save_path[th.file_path]
                                          ELSE SavePath(th.file_path)]),
               !.exits[rc] = @ + 1]

\* lines 109-128 with a failure also shown in the status text
l119_ShowFailure(t, rc) ==
    /\ threads[t].pc = "l119"
    /\ threads' = [threads EXCEPT ![t] = Classify(Ran(threads[t], rc), rc)]
    /\ IF rc = "zero"
       THEN UNCHANGED <<status_var, ui_writer>>
       ELSE /\ status_var' = Status("failed", threads[t].it, threads[t].total,
                                    basename(threads[t].file_path))
            /\ ui_writer' = t
    /\ UNCHANGED <<selected_files, listbox_files, progress_var, btn_convert,
                   btn_select_files, btn_select_folder, messagebox, notice, passed>>

\* lines 109-128: sips is run on file_path with --out save_path and exits
\* with status zero, exits with another status, or subprocess.run raises
l119(t, rc) ==
    /\ threads[t].pc = "l119"
    /\ threads' = [threads EXCEPT ![t] = Classify(Ran(threads[t], rc), rc)]
    /\ UNCHANGED <<ui, ui_writer, passed>>

\* lines 131-133
l131(t) ==
    /\ Step(t, "l131", "l104")
    /\ progress_var' = <<threads[t].it, threads[t].total>>
    /\ ui_writer' = t
    /\ UNCHANGED <<selected_files, listbox_files, status_var, btn_convert,
                   btn_select_files, btn_select_folder, messagebox, notice, passed>>

\* line 135
l135(t) ==
    /\ Step(t, "l135", "l136")
    /\ status_var' = Status("done", threads[t].success_count,
                            threads[t].error_count, NoPath)
    /\ ui_writer' = t
    /\ UNCHANGED <<selected_files, listbox_files, progress_var, btn_convert,
                   btn_select_files, btn_select_folder, messagebox, notice, passed>>

\* line 136: the completion box opens and showinfo blocks the thread
l136(t) ==
    /\ Step(t, "l136", "showinfo")
    /\ ~messagebox.open
    /\ messagebox' = [open |-> TRUE, s |-> threads[t].success_count,
                      e |-> threads[t].error_count]
    /\ ui_writer' = t
    /\ UNCHANGED <<selected_files, listbox_files, status_var, progress_var,
                   btn_convert, btn_select_files, btn_select_folder, notice, passed>>

\* line 136: the user dismisses the box and showinfo returns; the locals are
\* not read again
dismiss(t) ==
    /\ threads[t].pc = "showinfo"
    /\ threads' = [threads EXCEPT ![t] = [NoThread EXCEPT !.pc = "l139"]]
    /\ messagebox' = NoBox
    /\ UNCHANGED <<selected_files, listbox_files, status_var, progress_var,
                   btn_convert, btn_select_files, btn_select_folder, notice,
                   ui_writer, passed>>

\* line 139
l139(t) ==
    /\ Step(t, "l139", "l140")
    /\ selected_files' = <<>>
    /\ passed' = <<>>
    /\ ui_writer' = t
    /\ UNCHANGED <<listbox_files, status_var, progress_var, btn_convert,
                   btn_select_files, btn_select_folder, messagebox, notice>>

\* line 140
l140(t) ==
    /\ Step(t, "l140", "l141")
    /\ listbox_files' = <<>>
    /\ ui_writer' = t
    /\ UNCHANGED <<selected_files, status_var, progress_var, btn_convert,
                   btn_select_files, btn_select_folder, messagebox, notice, passed>>

\* line 141
l141(t) ==
    /\ Step(t, "l141", "l142")
    /\ progress_var' = <<0, 1>>
    /\ ui_writer' = t
    /\ UNCHANGED <<selected_files, listbox_files, status_var, btn_convert,
                   btn_select_files, btn_select_folder, messagebox, notice, passed>>

\* line 142
l142(t) ==
    /\ Step(t, "l142", "l143")
    /\ btn_convert' = "normal"
    /\ ui_writer' = t
    /\ UNCHANGED <<selected_files, listbox_files, status_var, progress_var,
                   btn_select_files, btn_select_folder, messagebox, notice, passed>>

\* line 143
l143(t) ==
    /\ Step(t, "l143", "l144")
    /\ btn_select_files' = "normal"
    /\ ui_writer' = t
    /\ UNCHANGED <<selected_files, listbox_files, status_var, progress_var,
                   btn_convert, btn_select_folder, messagebox, notice, passed>>

\* line 144, after which convert_process returns and the thread ends
l144(t) ==
    /\ Step(t, "l144", "done")
    /\ btn_select_folder' = "normal"
    /\ ui_writer' = t
    /\ UNCHANGED <<selected_files, listbox_files, status_var, progress_var,
                   btn_convert, btn_select_files, messagebox, notice, passed>>

\* one step of thread t
convert_process(t) ==
    \/ l100(t)
    \/ l104(t)
    \/ \E rc \in Outcomes : l119(t, rc)
    \/ l131(t)
    \/ l135(t)
    \/ l136(t)
    \/ dismiss(t)
    \/ l139(t)
    \/ l140(t)
    \/ l141(t)
    \/ l142(t)
    \/ l143(t)
    \/ l144(t)

Next ==
    \/ \E files \in askopenfilenames : select_files(files)
    \/ \E folder \in askdirectory :
          \E order \in (IF folder = NoPath THEN {<<>>} ELSE walk(folder)) :
              select_folder(folder, order)
    \/ start_conversion
    \/ \E t \in ThreadIds : convert_process(t)

Spec == Init /\ [][Next]_vars

\* The list object a thread iterates is the one selected_files names: no
\* thread rebinds selected_files (line 139) while another is inside its loop.
IteratedListIsCurrent ==
    \A t, u \in ThreadIds :
        (t # u /\ threads[t].pc \in {"l104", "l119", "l131"})
            => threads[u].pc \notin {"l100", "l104", "l119", "l131", "l135", "l136",
                                     "showinfo", "l139"}

\* ------------------------------------------- add_files_to_list on its own
\* add_files_to_list called directly with any sequence of paths, starting
\* from the empty list of __init__
add_call(files) ==
    /\ add_files_to_list(files)
    /\ notice' = "none"
    /\ UNCHANGED <<progress_var, btn_convert, btn_select_files, btn_select_folder,
                   messagebox, threads>>

NextAdd == \E files \in AllSeqs(Files, MaxArgs) : add_call(files)

SpecAdd == Init /\ [][NextAdd]_vars

\* ------------------------------------------- one picked file, any name
\* The window after one select_files call that returned the single path p,
\* for every pickable p; from there the user can only start conversions.
InitNaming ==
    \E p \in PickablePaths :
        /\ selected_files = <<p>>
        /\ listbox_files = <<p>>
        /\ status_var = Status("waiting", 1, 0, NoPath)
        /\ progress_var = <<0, 1>>
        /\ btn_convert = "normal"
        /\ btn_select_files = "normal"
        /\ btn_select_folder = "normal"
        /\ messagebox = NoBox
        /\ notice = "none"
        /\ threads = [t \in ThreadIds |-> NoThread]
        /\ ui_writer = MainThread
        /\ passed = <<p>>

NextNaming ==
    \/ start_conversion
    \/ \E t \in ThreadIds : convert_process(t)

SpecNaming == InitNaming /\ [][NextNaming]_vars

\* ------------------------------------------- folder scans of any tree
\* The files a scanned tree can hold besides File1, File2 and File3:
\* /a/.heic, /a/b/heic and /a/b/e/w.HeIc
File4 == <<"/", "a", "/", ".", "h", "e", "i", "c">>
File5 == <<"/", "a", "/", "b", "/", "h", "e", "i", "c">>
File6 == <<"/", "a", "/", "b", "/", "e", "/", "w", ".", "H", "e", "I", "c">>
ScanFiles == Files \cup {File4, File5, File6}

\* the trees of at most MaxTree files that the disk can hold when
\* select_folder runs
ScanTrees == {tree \in SUBSET ScanFiles : Cardinality(tree) <= MaxTree}

\* what one click can meet: the chosen folder, the tree on the disk and the
\* order in which os.walk lists the files below the folder
ScanInputs ==
    UNION {{<<folder, tree, order>> : order \in walk_tree(folder, tree)} :
              folder \in Folders, tree \in ScanTrees}

\* select_folder is the only handler used, on a tree that may differ from one
\* click to the next
NextScan ==
    \/ \E in \in ScanInputs : select_folder(in[1], in[3])
    \/ select_folder(NoPath, <<>>)

SpecScan == Init /\ [][NextScan]_vars

\* ------------------------------------------------------------------ claims
InLoop(t) == threads[t].pc \in {"l104", "l119", "l131"}
LoopDone(t) == threads[t].pc \in {"l135", "l136", "showinfo"}
Running(t) == threads[t].pc \in {"l100", "l104", "l119", "l131", "l135", "l136",
                                 "showinfo", "l139", "l140", "l141"}
AllEnabled ==
    btn_convert = "normal" /\ btn_select_files = "normal" /\ btn_select_folder = "normal"
AllDisabled ==
    btn_convert = "disabled" /\ btn_select_files = "disabled"
        /\ btn_select_folder = "disabled"
Sources(log) == [i \in 1..Len(log) |-> log[i].src]

\* C1: after any sequence of add_files_to_list calls, selected_files holds
\* every distinct path that was passed exactly once, in first-seen order.
C1_Dedup == selected_files = passed

\* C2: when the loop of a batch ends over N pending paths, the counters (and
\* the counts the completion box reports) equal the number of commands that
\* exited zero and the number that exited non-zero or raised, and their sum
\* is N; after every item exactly one of the two counters has grown by one.
LoopExit(t) == threads[t].pc = "l104" /\ threads'[t].pc = "l135"
Counted(t) == threads[t].success_count + threads[t].error_count
C2_Counting ==
    /\ [](\A t \in ThreadIds :
            /\ (InLoop(t) \/ LoopDone(t)) =>
                  /\ threads[t].success_count = threads[t].exits.zero
                  /\ threads[t].error_count =
                         threads[t].exits.nonzero + threads[t].exits.raise
                  /\ Counted(t) = IF threads[t].pc = "l119" THEN threads[t].it - 1
                                                            ELSE threads[t].it
            /\ threads[t].pc = "showinfo" =>
                  /\ messagebox.s = threads[t].exits.zero
                  /\ messagebox.e = threads[t].exits.nonzero + threads[t].exits.raise)
    /\ [][\A t \in ThreadIds :
             /\ LoopExit(t) => Counted(t) = Len(selected_files)
             /\ (threads[t].pc = "l119" /\ threads'[t].pc = "l131") =>
                   \/ /\ threads'[t].success_count = threads[t].success_count + 1
                      /\ threads'[t].error_count = threads[t].error_count
                   \/ /\ threads'[t].success_count = threads[t].success_count
                      /\ threads'[t].error_count = threads[t].error_count + 1]_vars

\* a batch of three files, one of each outcome, reports its counts
C2_Witness ==
    \E t \in ThreadIds :
        /\ threads[t].pc = "showinfo"
        /\ threads[t].exits = [zero |-> 1, nonzero |-> 1, raise |-> 1]
        /\ messagebox.open
        /\ messagebox.s = 1
        /\ messagebox.e = 2

\* C3: no write to the UI-owned state (status, progress, listbox, buttons,
\* pending list, boxes) is made by a worker thread; every write is applied by
\* the control thread.
C3_Handoff == ui_writer = MainThread

\* C4: at most one worker thread is alive, and while a batch is running
\* (before its completion re-enables them) all three triggers are disabled.
C4_OneBatch ==
    /\ Cardinality({t \in ThreadIds : Alive(t)}) <= 1
    /\ \A t \in ThreadIds : Running(t) => AllDisabled

\* C5: between the start of a batch and its bulk clear the pending list does
\* not change (so total equals the number of entries iterated), and the only
\* step that ever removes a path is the bulk clear of a completing batch.
BulkClear ==
    /\ selected_files' = <<>>
    /\ \E t \in ThreadIds : threads[t].pc = "l139" /\ threads'[t].pc = "l140"
IsPrefix(a, b) == Len(a) <= Len(b) /\ SubSeq(b, 1, Len(a)) = a
C5_ReadOnly ==
    /\ [](\A t \in ThreadIds : InLoop(t) => threads[t].total = Len(selected_files))
    /\ [][/\ (\E t \in ThreadIds : Running(t) /\ threads[t].pc \notin {"l140", "l141"})
               => (selected_files' = selected_files \/ BulkClear)
          /\ IsPrefix(selected_files, selected_files') \/ BulkClear]_vars

\* C6: the step that completes a batch leaves the pending list and the
\* listbox empty, the progress at 0 and all three triggers enabled, whatever
\* the outcomes of the files were.
C6_Reset ==
    [][\A t \in ThreadIds :
          (threads[t].pc = "l144" /\ threads'[t].pc = "done")
              => /\ selected_files' = <<>>
                 /\ listbox_files' = <<>>
                 /\ progress_var' = <<0, 1>>
                 /\ btn_convert' = "normal"
                 /\ btn_select_files' = "normal"
                 /\ btn_select_folder' = "normal"]_vars

\* C7: a convert click on an empty pending list shows the warning, starts no
\* thread, runs no command and changes neither the pending list, the
\* listbox, the progress, the status nor any button; no thread ever iterates
\* with total = 0.
C7_EmptyGuard ==
    /\ [](\A t \in ThreadIds : (InLoop(t) \/ LoopDone(t)) => threads[t].total >= 1)
    /\ [][(start_conversion /\ selected_files = <<>>)
              => /\ notice' = "showwarning_no_selection"
                 /\ UNCHANGED <<selected_files, listbox_files, progress_var,
                                status_var, btn_convert, btn_select_files,
                                btn_select_folder, messagebox, threads>>]_vars

\* a rejected empty conversion has just happened
C7_Witness ==
    /\ notice = "showwarning_no_selection"
    /\ selected_files = <<>>
    /\ \E t \in ThreadIds : threads[t].pc = "done"

\* C8: a batch runs the command on the pending paths in the order of the
\* pending list, once per path and never again after a failure, and its loop
\* ends only when every pending path has been attempted, whatever the
\* outcomes of the earlier ones were.
C8_Order ==
    /\ [](\A t \in ThreadIds :
            (InLoop(t) \/ LoopDone(t)) =>
                /\ IsPrefix(Sources(threads[t].log), selected_files)
                /\ \A i, j \in 1..Len(threads[t].log) :
                      i # j => threads[t].log[i].src # threads[t].log[j].src
                /\ Len(threads[t].log) =
                      IF threads[t].pc = "l119" THEN threads[t].it - 1
                                                ELSE threads[t].it)
    /\ [][\A t \in ThreadIds :
             LoopExit(t) => Sources(threads[t].log) = selected_files]_vars

\* a batch of three files has attempted all of them although every one failed
C8_Witness ==
    \E t \in ThreadIds :
        /\ LoopDone(t)
        /\ Len(threads[t].log) = 3
        /\ Sources(threads[t].log) = selected_files
        /\ threads[t].exits.zero = 0
        /\ threads[t].error_count = 3

\* C9: every started thread ends, it ends only through line 144 along the
\* one path of convert_process, leaving the loop only with the list
\* exhausted, and whenever no thread is alive the triggers are enabled.
PcSucc ==
    {<<"unborn", "l100">>, <<"l100", "l104">>, <<"l104", "l119">>,
     <<"l119", "l131">>, <<"l131", "l104">>, <<"l104", "l135">>,
     <<"l135", "l136">>, <<"l136", "showinfo">>, <<"showinfo", "l139">>,
     <<"l139", "l140">>, <<"l140", "l141">>, <<"l141", "l142">>,
     <<"l142", "l143">>, <<"l143", "l144">>, <<"l144", "done">>}

FairSpec == Spec /\ \A t \in ThreadIds : WF_vars(convert_process(t))

C9_RunToCompletion ==
    /\ \A t \in ThreadIds : (threads[t].pc = "l100") ~> (threads[t].pc = "done")
    /\ []((\A t \in ThreadIds : ~Alive(t)) => AllEnabled)
    /\ [][\A t \in ThreadIds :
             /\ threads'[t].pc # threads[t].pc
                   => <<threads[t].pc, threads'[t].pc>> \in PcSucc
             /\ (threads[t].pc = "l104" /\ threads'[t].pc = "l135")
                   => threads[t].it = Len(selected_files)]_vars

\* a batch with a failed file has run to its end
C9_Witness ==
    /\ \E t \in ThreadIds : threads[t].pc = "done"
    /\ status_var.kind = "done"
    /\ status_var.b >= 1
    /\ AllEnabled

\* C10: the --out path of every command differs from its source path.
C10_SourceNotTarget ==
    \A t \in ThreadIds :
        \A i \in 1..Len(threads[t].log) : threads[t].log[i].out # threads[t].log[i].src

\* C11: a folder scan that finds no matching file shows the informational
\* notice and changes nothing else: add_files_to_list is not called, no thread
\* is started, and selected_files, the listbox, the status string and the
\* progress value keep their values; a cancelled folder or file dialog changes
\* nothing either and shows no notice.
Untouched ==
    UNCHANGED <<selected_files, listbox_files, status_var, progress_var, passed,
                threads, btn_convert, btn_select_files, btn_select_folder,
                messagebox, ui_writer>>
EmptyScans ==
    UNION {{<<folder, order>> : order \in {o \in walk(folder) : scan(o) = <<>>}} :
              folder \in Folders}
C11_ScanEmpty ==
    [][/\ \A in \in EmptyScans :
              select_folder(in[1], in[2]) => (notice' = "showinfo_no_heic" /\ Untouched)
       /\ select_folder(NoPath, <<>>) => (notice' = "none" /\ Untouched)
       /\ select_files(<<>>) => (notice' = "none" /\ Untouched)]_vars
C11_Witness ==
    /\ notice = "showinfo_no_heic"
    /\ selected_files # <<>>
    /\ status_var = Status("waiting", Len(selected_files), 0, NoPath)

\* C12: every path handed to sips as destination is the source path up to and
\* including its last "/", unchanged, followed by the source's file name
\* without its last extension component and by ".jpg". The last extension
\* component runs from the last dot of the name to its end; a name without a
\* dot, or whose dots all stand at its very beginning, has none and is kept
\* whole.
Max(S) == CHOOSE i \in S : \A j \in S : j <= i
ExpectedDestination(src) ==
    LET d      == Max({i \in 1..Len(src) : src[i] = "/"})
        name   == SubSeq(src, d + 1, Len(src))
        dots   == {i \in 1..Len(name) : name[i] = "."}
        hasExt == \E i \in dots : \E j \in 1..(i - 1) : name[j] # "."
        stem   == IF hasExt THEN SubSeq(name, 1, Max(dots) - 1) ELSE name
    IN  SubSeq(src, 1, d) \o stem \o <<".", "j", "p", "g">>
C12_OutputNaming ==
    \A t \in ThreadIds : \A k \in 1..Len(threads[t].log) :
        threads[t].log[k].out = ExpectedDestination(threads[t].log[k].src)
C12_Witness ==
    \E t \in ThreadIds :
        /\ threads[t].pc = "l131"
        /\ threads[t].log =
              <<[src |-> <<"/", "a", ".", "a", ".", "a">>,
                 out |-> <<"/", "a", ".", "a", ".", "j", "p", "g">>]>>

\* C13: for every directory tree, the folder scan hands add_files_to_list
\* exactly the files below the folder, at any depth, whose name ends in a dot
\* followed by heic or heif in any mix of upper and lower case, and no other
\* file; selected_files changes only by what add_files_to_list appends, the
\* matching files that were not yet pending.
HeicSpellings ==
    {<<h, e, i, c>> : h \in {"h", "H"}, e \in {"e", "E"}, i \in {"i", "I"},
                      c \in {"c", "C", "f", "F"}}
HasHeicExtension(f) ==
    /\ Len(f) >= 5
    /\ f[Len(f) - 4] = "."
    /\ SubSeq(f, Len(f) - 3, Len(f)) \in HeicSpellings
C13_ExtensionFilter ==
    [][\A in \in ScanInputs :
          select_folder(in[1], in[3])
              => LET match == {f \in in[2] : IsBelow(in[1], f) /\ HasHeicExtension(f)}
                 IN  /\ Range(passed') = Range(passed) \cup match
                     /\ Range(selected_files') = Range(selected_files) \cup match
                     /\ IsPrefix(selected_files, selected_files')
                     /\ Len(selected_files') =
                            Len(selected_files) + Cardinality(match \ Range(selected_files))]_vars
C13_Witness ==
    /\ selected_files = <<File4, File6>>
    /\ passed = selected_files
    /\ notice = "none"

\* C14 as stated: the "converting k of M: name" status text and the progress
\* value of item k are both emitted only once item k's command has run and
\* its outcome has been counted, and before the command of item k + 1.
StatusEmitted(t) ==
    /\ threads'[t] # threads[t]
    /\ status_var' # status_var
    /\ status_var'.kind = "converting"
ProgressEmitted(t) ==
    /\ threads'[t] # threads[t]
    /\ progress_var' # progress_var
    /\ progress_var'[1] > 0
C14_EmitAfterClassify ==
    [][\A t \in ThreadIds :
          /\ StatusEmitted(t)
                => /\ Len(threads[t].log) = status_var'.a
                   /\ Counted(t) = status_var'.a
                   /\ Len(threads'[t].log) = status_var'.a
          /\ ProgressEmitted(t)
                => /\ Len(threads[t].log) = progress_var'[1]
                   /\ Counted(t) = progress_var'[1]
                   /\ Len(threads'[t].log) = progress_var'[1]]_vars

\* C14 amended: the progress value of item k is emitted only once item k's
\* command has run and its outcome has been counted, and before the command
\* of item k + 1; the "converting k of M: name" status text of item k, which
\* names the k-th pending file, is emitted before the command of item k is
\* invoked, when k - 1 commands have run and been counted.
C14_StatusBeforeProgressAfter ==
    [][\A t \in ThreadIds :
          /\ StatusEmitted(t)
                => /\ Len(threads[t].log) = status_var'.a - 1
                   /\ Counted(t) = status_var'.a - 1
                   /\ Len(threads'[t].log) = status_var'.a - 1
                   /\ threads'[t].pc = "l119"
                   /\ status_var'.a <= Len(selected_files)
                   /\ status_var'.name = basename(selected_files[status_var'.a])
                   /\ threads'[t].file_path = selected_files[status_var'.a]
          /\ ProgressEmitted(t)
                => /\ Len(threads[t].log) = progress_var'[1]
                   /\ Counted(t) = progress_var'[1]
                   /\ Len(threads'[t].log) = progress_var'[1]
                   /\ threads'[t].pc = "l104"
          /\ (threads[t].pc = "l104" /\ threads'[t].pc = "l119") => StatusEmitted(t)
          /\ (threads[t].pc = "l131" /\ threads'[t].pc = "l104") => ProgressEmitted(t)]_vars
C14_Witness ==
    \E t \in ThreadIds :
        /\ threads[t].pc = "l119"
        /\ threads[t].it = 2
        /\ Len(threads[t].log) = 1
        /\ status_var = Status("converting", 2, 2, basename(selected_files[2]))
        /\ progress_var = <<1, 2>>

\* C15: during a batch of N items the progress value set after the k-th item
\* has been counted is k/N of full scale; while a batch runs the value never
\* decreases and never exceeds full scale; it is at full scale once the loop
\* has ended, whatever the outcomes; and it is 0 whenever no batch is running.
BatchSize(t) == threads[t].total
C15_ExactFraction ==
    [][\A t \in ThreadIds :
          ProgressEmitted(t) => progress_var' = <<Counted(t), BatchSize(t)>>]_vars
C15_Monotone ==
    [][(\E t \in ThreadIds : InLoop(t) \/ LoopDone(t))
          => progress_var'[1] * progress_var[2] >= progress_var[1] * progress_var'[2]]_vars
C15_AtMostFull == progress_var[1] <= progress_var[2]
C15_FullAtEnd ==
    \A t \in ThreadIds :
        /\ LoopDone(t) => progress_var[1] = progress_var[2]
        /\ (InLoop(t) /\ progress_var[1] >= progress_var[2])
              => Counted(t) = Len(selected_files)
C15_ZeroWhenIdle ==
    (\A t \in ThreadIds : ~Running(t)) => progress_var = <<0, 1>>
C15_Progress ==
    /\ C15_ExactFraction
    /\ C15_Monotone
    /\ [](C15_AtMostFull /\ C15_FullAtEnd /\ C15_ZeroWhenIdle)

\* C16: while a batch runs no dialog opens and the status string carries no
\* outcome of a single file: a thread writes only the "converting" text
\* before a command and, once, the "done" text with the two totals; the one
\* dialog of a batch opens at line 136 with the totals of all its items,
\* after the progress update of the last item and while the pending list
\* still holds the batch and the convert trigger is disabled; a thread
\* reaches the reset of line 139 only by way of that dialog.
Moves(t) == threads[t].pc # "unborn" /\ threads'[t] # threads[t]
C16_AggregateOnce ==
    [][\A t \in ThreadIds :
          /\ (Moves(t) /\ messagebox' # messagebox /\ messagebox'.open)
                => /\ threads[t].pc = "l136"
                   /\ threads'[t].pc = "showinfo"
                   /\ ~messagebox.open
                   /\ messagebox'.s = threads[t].exits.zero
                   /\ messagebox'.e = threads[t].exits.nonzero + threads[t].exits.raise
                   /\ messagebox'.s + messagebox'.e = Len(threads[t].log)
                   /\ Len(threads[t].log) >= 1
                   /\ progress_var = <<Len(threads[t].log), threads[t].total>>
                   /\ IsPrefix(Sources(threads[t].log), selected_files)
                   /\ btn_convert = "disabled"
          /\ (Moves(t) /\ status_var' # status_var)
                => \/ status_var'.kind = "converting" /\ threads'[t].pc = "l119"
                   \/ /\ status_var'.kind = "done"
                      /\ threads[t].pc = "l135"
                      /\ status_var'.a + status_var'.b = Len(threads[t].log)
          /\ Moves(t) => notice' = notice
          /\ (Moves(t) /\ InLoop(t)) => (messagebox' = messagebox /\ ~messagebox.open)
          /\ threads'[t].pc # threads[t].pc
                => /\ threads'[t].pc = "l139" => (threads[t].pc = "showinfo" /\ messagebox.open)
                   /\ threads'[t].pc = "showinfo" => threads[t].pc = "l136"
                   /\ threads'[t].pc = "l136" => threads[t].pc = "l135"
                   /\ threads'[t].pc = "l135" => threads[t].pc = "l104"
                   /\ threads'[t].pc \in {"l104", "l119", "l131"}
                         => threads[t].pc \in {"l100", "l104", "l119", "l131"}]_vars
C16_Witness ==
    \E t \in ThreadIds :
        /\ threads[t].pc = "showinfo"
        /\ messagebox = [open |-> TRUE, s |-> 1, e |-> 2]
        /\ threads[t].exits = [zero |-> 1, nonzero |-> 1, raise |-> 1]
        /\ status_var = Status("done", 1, 2, NoPath)
        /\ Len(selected_files) = 3
        /\ AllDisabled

\* C17: whenever no handler and no conversion thread is in the middle of its
\* run, the listbox shows the entries of selected_files, element for element;
\* and a step that appends at least one path to selected_files leaves the
\* status string showing the new length of selected_files.
Quiescent == \A t \in ThreadIds : ~Alive(t)
C17_ListboxMirrors == Quiescent => listbox_files = selected_files
C17_StatusShowsLength ==
    [][Len(selected_files') > Len(selected_files)
          => status_var' = Status("waiting", Len(selected_files'), 0, NoPath)]_vars
C17_DisplayMirrors == []C17_ListboxMirrors /\ C17_StatusShowsLength

====
